---- MODULE Spec2Model ----
(***************************************************************************)
(* clipMaker: the clip-creation route (POST intake, BullMQ queue, the      *)
(* worker's processClipJob/createClip, the GET status poll) as a state     *)
(* machine.                                                                *)
(*                                                                         *)
(* The repository holds several revisions of the route module.  One of    *)
(* them is deployed at a time; `rev` says which:                           *)
(*   "route"  src/app/api/create-clip/route.ts                             *)
(*   "part3"  src/unnamed/part_003  (webhook, output check, temp cleanup)  *)
(*   "part2"  src/unnamed/part_002  (GET poll, artifact streaming)         *)
(*                                                                         *)
(* Environment assumptions: the BullMQ worker runs with its default        *)
(* concurrency of 1 and default attempts of 1; fs-extra's remove and       *)
(* writeFile do not fail; queue lookups (getJob, getState) do not fail;    *)
(* time is abstracted: an armed timer may fire at any moment.              *)
(***************************************************************************)
EXTENDS Integers, Sequences, FiniteSets, TLC

\* ---------------------------------------------------------------- bounds
\* POST requests handled in one behaviour (each takes a fresh session id).
MaxPosts == 2
\* Media items in a job whose render plan is built.
MaxItems == 2

Revisions == {"route", "part3", "part2"}

\* Uploads: the ordered file parts of one request, by original name: none,
\* one, two of the same name, two of different names.
Uploads == {<<>>, <<"a">>, <<"a", "a">>, <<"a", "b">>}

Bodies == {"multipart", "json"}

\* Diagnostic messages of the encoder (err.message of the 'error' event).
EngineMsgs == {"ffmpeg exited with code 1", "Invalid data found"}

TimeoutMsg == "FFmpeg process timed out after 15 minutes"
MissingMsg == "Output file was not created"
HookMsg == "Failed to send clip to webhook"
FetchMsg == "fetch failed"

PlaceholderUrl == "https://hook.eu1.make.com/your_webhook_endpoint"
ConfiguredUrl == "https://hooks.example/clip"

JobIds == 1..MaxPosts

VARIABLES
  rev,         \* the deployed revision of the route module
  envWebhook,  \* process.env.WEBHOOK_URL ("" when not set)
  posts,       \* POST requests handled so far (the last session id)
  jobs,        \* the clipCreation queue: job id -> BullMQ job record
  tempFiles,   \* paths existing under TEMP_DIR
  outFiles,    \* job id -> content of the job's output path
  exec,        \* the worker's running processClipJob call
  proc,        \* job id -> the job's ffmpeg subprocess
  outTimer,    \* jobs whose output-cleanup timer is pending
  streams,     \* jobs with an open read stream of the artifact (GET)
  resp,        \* the HTTP response sent by the last step, if any
  fsError,     \* the error the last step's file deletion met and logged
  hist,        \* job id -> history of the job's execution (observation)
  media,       \* the mediaItems of the job createClip is called with
  fonts,       \* which caption font files exist on the server
  plan,        \* the render plan createClip built from media
  replan,      \* the plan of a second createClip call with the same media
  progress,    \* createClip's progress logger: clock, lastProgress, log
  page,        \* the page's state: mediaItems, textAreaValues, form sent
  poll         \* the page's pollForClipUrl: interval, requests, downloads

\* The render plan builder's own state, which the route's steps leave alone.
planVars == <<media, fonts, plan, replan>>

\* The progress logger's and the page's state, which the route's steps and
\* the plan builder leave alone.
sideVars == <<progress, page, poll>>

vars == <<rev, envWebhook, posts, jobs, tempFiles, outFiles, exec, proc,
          outTimer, streams, resp, fsError, hist, planVars, sideVars>>

\* ------------------------------------------------------------ data shapes
NoResult == [success |-> FALSE, clip |-> <<>>, error |-> "", set |-> FALSE]

Success(path) == [success |-> TRUE, clip |-> path, error |-> "", set |-> TRUE]

\* Variant: the failure result carries a fixed text, not the error's message.
Failure_reworded(msg) ==
  [success |-> FALSE, clip |-> <<>>, error |-> "Clip creation failed",
   set |-> TRUE]

\* `{ success: false, error: error.message }`
Failure(msg) == [success |-> FALSE, clip |-> <<>>, error |-> msg, set |-> TRUE]

NewJob(items, sessionId) ==
  [mediaItems |-> items, sessionId |-> sessionId, state |-> "waiting",
   returnvalue |-> NoResult, failedReason |-> ""]

NoHist ==
  [runs |-> 0, settle |-> "none", msg |-> "", out |-> "absent",
   hooks |-> 0, hookOutcome |-> "none", cleanups |-> 0, threw |-> FALSE,
   killed |-> FALSE, retrieved |-> FALSE]

Idle == [job |-> 0, pc |-> "idle", timeout |-> FALSE]

NoPlan ==
  [built |-> FALSE, filters |-> <<>>, total |-> [k |-> "num", ms |-> 0],
   concatN |-> 0, inputs |-> <<>>, concatV |-> 0, concatA |-> 0,
   mapped |-> <<>>]

\* The progress logger before createClip has built its promise.
NoProgress ==
  [now |-> 0, running |-> FALSE, startedAt |-> 0, lastProgress |-> 0,
   logged |-> <<>>]

\* The page as loaded: no media item, five empty captions, nothing sent.
NoPage ==
  [mediaItems |-> <<>>, textAreaValues |-> [i \in 0..4 |-> ""],
   picked |-> 0, entered |-> <<>>, form |-> <<>>, submitted |-> FALSE]

\* The page before pollForClipUrl was called.
NoPoll ==
  [interval |-> "none", job |-> "processing", ticks |-> 0, inflight |-> 0,
   terminalSeen |-> FALSE, sentAfterTerminal |-> FALSE, clicks |-> 0]

NoResp ==
  [op |-> "none", status |-> 0, body |-> "", jobId |-> 0, nfiles |-> 0,
   qBefore |-> 0, state |-> "none", stale |-> FALSE, error |-> ""]

PostResp(status, body, jobId, nfiles) ==
  [op |-> "POST", status |-> status, body |-> body, jobId |-> jobId,
   nfiles |-> nfiles, qBefore |-> Len(jobs), state |-> "none",
   stale |-> FALSE, error |-> ""]

Range(s) == {s[i] : i \in 1..Len(s)}

\* ----------------------------------------------------------------- Init
\* The queue is durable: a process may start with a waiting job that an
\* earlier process left on it, its temp file on disk.  This is how the
\* worker of route.ts comes to run at all, whose own POST cannot add a job.
Backlog == <<NewJob(<<(<<"temp", 1, 0, "a">>)>>, 1)>>

Init ==
  /\ rev \in Revisions
  /\ envWebhook \in (IF rev = "part2" THEN {""} ELSE {"", ConfiguredUrl})
  /\ jobs \in (IF rev = "route" THEN {<<>>, Backlog} ELSE {<<>>})
  /\ posts = Len(jobs)
  /\ tempFiles = UNION {Range(jobs[j].mediaItems) : j \in 1..Len(jobs)}
  /\ outFiles = [j \in JobIds |-> "absent"]
  /\ exec = Idle
  /\ proc = [j \in JobIds |-> "none"]
  /\ outTimer = {}
  /\ streams = {}
  /\ resp = NoResp
  /\ fsError = ""
  /\ hist = [j \in JobIds |-> NoHist]
  /\ media = <<>>
  /\ fonts = "assets"
  /\ plan = NoPlan
  /\ replan = NoPlan
  /\ progress = NoProgress
  /\ page = NoPage
  /\ poll = NoPoll

\* ----------------------------------------------------------- POST intake
\* req.json() reads the body and parses it as JSON: it throws on a
\* multipart body.
ReqJsonThrows(body) == body # "json"

\* req.formData() throws when the body was already read, or is no form.
ReqFormDataThrows(body, bodyUsed) == bodyUsed \/ body # "multipart"

\* route.ts: req.json() first, then req.formData() on the same request.
POST_route(body, files, addOk) ==
  /\ rev = "route"
  /\ posts < MaxPosts
  /\ LET sessionId == posts + 1
         jsonThrew == ReqJsonThrows(body)
         formThrew == ~jsonThrew /\ ReqFormDataThrows(body, TRUE)
         threw == jsonThrew \/ formThrew
         noFiles == ~threw /\ Len(files) = 0
         items == [i \in 1..Len(files) |->
                     <<"temp", sessionId, i - 1, files[i]>>]
         written == IF threw \/ noFiles THEN {} ELSE Range(items)
         added == ~threw /\ ~noFiles /\ addOk
     IN  /\ posts' = sessionId
         /\ tempFiles' = tempFiles \cup written
         /\ jobs' = IF added THEN Append(jobs, NewJob(items, sessionId))
                    ELSE jobs
         /\ resp' = IF noFiles
                    THEN PostResp(400, "No files uploaded", 0, Len(files))
                    ELSE IF added
                    THEN PostResp(200, "queued", Len(jobs) + 1, Len(files))
                    ELSE PostResp(500, "Internal server error", 0,
                                  Len(files))
  /\ fsError' = ""
  /\ UNCHANGED <<planVars, sideVars, rev, envWebhook,
                 outFiles, exec, proc, outTimer, streams,
                 hist>>

\* Variant: the empty-upload check is missing.
NoFilesSaved_never(saved) == FALSE

\* part_003: `if (savedFilePaths.length === 0) throw`.
NoFilesSaved(saved) == Len(saved) = 0

\* Variant: a rejected clipQueue.add is swallowed and the handler answers as
\* if the job had been queued.
POST_part3_addSwallowed(body, files, addOk) ==
  /\ rev = "part3"
  /\ posts < MaxPosts
  /\ LET sessionId == posts + 1
         formThrew == ReqFormDataThrows(body, FALSE)
         saved == IF formThrew THEN <<>>
                  ELSE [i \in 1..Len(files) |->
                          <<"temp", sessionId, files[i]>>]
         added == ~formThrew /\ ~NoFilesSaved(saved) /\ addOk
         reached == ~formThrew /\ ~NoFilesSaved(saved)
     IN  /\ posts' = sessionId
         /\ tempFiles' = tempFiles \cup Range(saved)
         /\ jobs' = IF added THEN Append(jobs, NewJob(saved, sessionId))
                    ELSE jobs
         /\ resp' = IF reached
                    THEN PostResp(200, "queued", Len(jobs) + 1, Len(files))
                    ELSE PostResp(500, "Error processing request", 0,
                                  Len(files))
  /\ fsError' = ""
  /\ UNCHANGED <<planVars, sideVars, rev, envWebhook,
                 outFiles, exec, proc, outTimer, streams,
                 hist>>

\* part_003: every file part is written to TEMP_DIR/<sessionId>_<name>.
POST_part3(body, files, addOk) ==
  /\ rev = "part3"
  /\ posts < MaxPosts
  /\ LET sessionId == posts + 1
         formThrew == ReqFormDataThrows(body, FALSE)
         saved == IF formThrew THEN <<>>
                  ELSE [i \in 1..Len(files) |->
                          <<"temp", sessionId, files[i]>>]
         added == ~formThrew /\ ~NoFilesSaved(saved) /\ addOk
     IN  /\ posts' = sessionId
         /\ tempFiles' = tempFiles \cup Range(saved)
         /\ jobs' = IF added THEN Append(jobs, NewJob(saved, sessionId))
                    ELSE jobs
         /\ resp' = IF added
                    THEN PostResp(200, "queued", Len(jobs) + 1, Len(files))
                    ELSE PostResp(500, "Error processing request", 0,
                                  Len(files))
  /\ fsError' = ""
  /\ UNCHANGED <<planVars, sideVars, rev, envWebhook,
                 outFiles, exec, proc, outTimer, streams,
                 hist>>

\* Variant: the writes are started but not awaited, so the job is added
\* while no file is on disk yet.
POST_part2_writesPending(body, files, addOk) ==
  /\ rev = "part2"
  /\ posts < MaxPosts
  /\ LET sessionId == posts + 1
         formThrew == ReqFormDataThrows(body, FALSE)
         saved == IF formThrew THEN <<>>
                  ELSE [i \in 1..Len(files) |->
                          <<"temp", sessionId, i - 1, files[i]>>]
         added == ~formThrew /\ Len(saved) # 0 /\ addOk
     IN  /\ posts' = sessionId
         /\ tempFiles' = tempFiles
         /\ jobs' = IF added THEN Append(jobs, NewJob(saved, sessionId))
                    ELSE jobs
         /\ resp' = IF added
                    THEN PostResp(200, "queued", Len(jobs) + 1, Len(files))
                    ELSE PostResp(500, "Error processing request", 0,
                                  Len(files))
  /\ fsError' = ""
  /\ UNCHANGED <<planVars, sideVars, rev, envWebhook,
                 outFiles, exec, proc, outTimer, streams,
                 hist>>

\* part_002: the file index is part of the name:
\* TEMP_DIR/<sessionId>_<fileIndex>_<name>.
POST_part2(body, files, addOk) ==
  /\ rev = "part2"
  /\ posts < MaxPosts
  /\ LET sessionId == posts + 1
         formThrew == ReqFormDataThrows(body, FALSE)
         saved == IF formThrew THEN <<>>
                  ELSE [i \in 1..Len(files) |->
                          <<"temp", sessionId, i - 1, files[i]>>]
         added == ~formThrew /\ Len(saved) # 0 /\ addOk
     IN  /\ posts' = sessionId
         /\ tempFiles' = tempFiles \cup Range(saved)
         /\ jobs' = IF added THEN Append(jobs, NewJob(saved, sessionId))
                    ELSE jobs
         /\ resp' = IF added
                    THEN PostResp(200, "queued", Len(jobs) + 1, Len(files))
                    ELSE PostResp(500, "Error processing request", 0,
                                  Len(files))
  /\ fsError' = ""
  /\ UNCHANGED <<planVars, sideVars, rev, envWebhook,
                 outFiles, exec, proc, outTimer, streams,
                 hist>>

\* A request: its body kind, its file parts (none in a JSON body) and
\* whether the broker accepts clipQueue.add.
Request(body, files) == body = "json" => files = <<>>

POST ==
  \/ \E body \in Bodies, files \in Uploads, addOk \in BOOLEAN :
       Request(body, files) /\ POST_route(body, files, addOk)
  \/ \E body \in Bodies, files \in Uploads, addOk \in BOOLEAN :
       Request(body, files) /\ POST_part3(body, files, addOk)
  \/ \E body \in Bodies, files \in Uploads, addOk \in BOOLEAN :
       Request(body, files) /\ POST_part2(body, files, addOk)

\* ------------------------------------------------------------- the worker
\* `process.env.WEBHOOK_URL || '<placeholder>'`.
WEBHOOK_URL == IF envWebhook # "" THEN envWebhook ELSE PlaceholderUrl

\* route.ts and part_003 render to OUTPUT_DIR/<sessionId>.mp4 (job.data's
\* outputPath); part_002 to os.tmpdir()/<uuid>.mp4, a fresh name per call.
OutputPath(j) ==
  IF rev = "part2" THEN <<"tmp", j>> ELSE <<"output", jobs[j].sessionId>>

\* The worker takes the oldest waiting job when it runs none.
NextWaiting ==
  LET w == {j \in 1..Len(jobs) : jobs[j].state = "waiting"}
  IN  IF w = {} THEN 0 ELSE CHOOSE j \in w : \A k \in w : j <= k

\* fs-extra's remove(path) on the set of existing paths: a missing path is
\* no error.
fsRemove(files, path) == files \ {path}

\* The loop of cleanupTempFiles over the items' paths, from `files`.
RECURSIVE CleanupFrom(_, _)
CleanupFrom(files, items) ==
  IF items = <<>> THEN files
  ELSE CleanupFrom(fsRemove(files, Head(items)), Tail(items))

\* Variant: the cleanup empties TEMP_DIR instead of removing the job's own
\* paths.
cleanupTempFiles_wholeDir(items) == {}

\* cleanupTempFiles: fs.remove of every item's path, each in its own
\* try/catch.
cleanupTempFiles(items) == CleanupFrom(tempFiles, items)

\* fs.unlink(path, callback) on a file's content: a missing file gives the
\* callback an ENOENT error.
fsUnlink(content) ==
  [content |-> "absent",
   err |-> IF content = "absent" THEN "ENOENT" ELSE ""]

\* BullMQ: the handler returned `rv`; the job is moved to completed.
Returned(j, rv, h) ==
  /\ jobs' = [jobs EXCEPT ![j].state = "completed", ![j].returnvalue = rv]
  /\ exec' = Idle
  /\ hist' = [hist EXCEPT ![j] = h]

\* Variant: a queue with attempts > 1 puts the job back to waiting.
Thrown_retried(j, msg, h) ==
  /\ jobs' = [jobs EXCEPT ![j].state = "waiting", ![j].failedReason = msg]
  /\ exec' = Idle
  /\ hist' = [hist EXCEPT ![j] = [h EXCEPT !.threw = TRUE]]

\* BullMQ: the handler threw; the job is moved to failed (attempts: 1) and
\* keeps the error's message as failedReason.
Thrown(j, msg, h) ==
  /\ jobs' = [jobs EXCEPT ![j].state = "failed", ![j].failedReason = msg]
  /\ exec' = Idle
  /\ hist' = [hist EXCEPT ![j] = [h EXCEPT !.threw = TRUE]]

\* Variant: the temp inputs are removed before the webhook is called.
AwaitFetch_cleanupFirst(j, h) ==
  /\ exec' = [job |-> j, pc |-> "hook", timeout |-> FALSE]
  /\ hist' = [hist EXCEPT ![j] = [h EXCEPT !.hooks = @ + 1,
                                           !.cleanups = @ + 1]]
  /\ tempFiles' = cleanupTempFiles(jobs[j].mediaItems)
  /\ UNCHANGED <<jobs, outTimer>>

\* The handler awaits fetch(WEBHOOK_URL, ...).
AwaitFetch(j, h) ==
  /\ exec' = [job |-> j, pc |-> "hook", timeout |-> FALSE]
  /\ hist' = [hist EXCEPT ![j] = [h EXCEPT !.hooks = @ + 1]]
  /\ UNCHANGED <<jobs, tempFiles, outTimer>>

\* createClip's promise, per revision: route.ts arms no timeout.
createClip_route(j) == [job |-> j, pc |-> "render", timeout |-> FALSE]

createClip_part3(j) == [job |-> j, pc |-> "render", timeout |-> TRUE]

createClip_part2(j) == [job |-> j, pc |-> "render", timeout |-> TRUE]

\* processClipJob is called with the job and runs to `await createClip`,
\* which builds the command and starts the ffmpeg subprocess.
processClipJob_start(j) ==
  /\ exec.pc = "idle"
  /\ j = NextWaiting
  /\ jobs' = [jobs EXCEPT ![j].state = "active"]
  /\ exec' = CASE rev = "route" -> createClip_route(j)
               [] rev = "part3" -> createClip_part3(j)
               [] rev = "part2" -> createClip_part2(j)
  /\ proc' = [proc EXCEPT ![j] = "running"]
  /\ hist' = [hist EXCEPT ![j].runs = @ + 1]
  /\ resp' = NoResp
  /\ fsError' = ""
  /\ UNCHANGED <<planVars, sideVars, rev, envWebhook,
                 posts, tempFiles, outFiles, outTimer,
                 streams>>

\* ---- route.ts processClipJob (165-205), after createClip settled
processClipJob_route_tail(j, h) ==
  /\ outTimer' = outTimer \cup {j}
  /\ tempFiles' = tempFiles
  /\ Returned(j, Success(OutputPath(j)), h)

processClipJob_route(j, r, exists, h) ==
  IF r.ok
  THEN IF WEBHOOK_URL # ""
       THEN AwaitFetch(j, h)
       ELSE processClipJob_route_tail(j, h)
  ELSE /\ Thrown(j, r.msg, h)
       /\ UNCHANGED <<tempFiles, outTimer>>

\* `if (!response.ok) throw`; a rejected fetch throws as well.
processClipJob_route_fetched(j, outcome, h) ==
  IF outcome = "ok"
  THEN processClipJob_route_tail(j, h)
  ELSE /\ Thrown(j, IF outcome = "non2xx" THEN HookMsg ELSE FetchMsg, h)
       /\ UNCHANGED <<tempFiles, outTimer>>

\* ---- part_003 processClipJob (233-307), after createClip settled
\* `finally { await cleanupTempFiles(mediaItems) }`
processClipJob_part3_finally(j, h) ==
  /\ tempFiles' = cleanupTempFiles(jobs[j].mediaItems)
  /\ hist' = [hist EXCEPT ![j] = [h EXCEPT !.cleanups = @ + 1]]

\* Variant: the cleanup sits at the end of the try block, not in finally.
processClipJob_part3_return_tryOnly(j, rv, h) ==
  /\ jobs' = [jobs EXCEPT ![j].state = "completed", ![j].returnvalue = rv]
  /\ exec' = Idle
  /\ IF rv.success
     THEN processClipJob_part3_finally(j, h)
     ELSE tempFiles' = tempFiles /\ hist' = [hist EXCEPT ![j] = h]

processClipJob_part3_return(j, rv, h) ==
  /\ jobs' = [jobs EXCEPT ![j].state = "completed", ![j].returnvalue = rv]
  /\ exec' = Idle
  /\ processClipJob_part3_finally(j, h)

processClipJob_part3_tail(j, h) ==
  /\ outTimer' = outTimer \cup {j}
  /\ processClipJob_part3_return(j, Success(OutputPath(j)), h)

\* `if (await fs.pathExists(outputPath))`
processClipJob_part3_verified(exists) == exists

processClipJob_part3(j, r, exists, h) ==
  IF r.ok
  THEN IF processClipJob_part3_verified(exists)
       THEN IF WEBHOOK_URL # ""
            THEN AwaitFetch(j, h)
            ELSE processClipJob_part3_tail(j, h)
       ELSE /\ processClipJob_part3_return(j, Failure(MissingMsg), h)
            /\ UNCHANGED outTimer
  ELSE /\ processClipJob_part3_return(j, Failure(r.msg), h)
       /\ UNCHANGED outTimer

\* Variant: a failed delivery is sent a second time.
processClipJob_part3_fetched_resent(j, outcome, h) ==
  IF outcome = "ok" \/ h.hooks >= 2
  THEN processClipJob_part3_tail(j, h)
  ELSE AwaitFetch(j, h)

\* The fetch is wrapped in its own try/catch: every outcome continues.
processClipJob_part3_fetched(j, outcome, h) ==
  processClipJob_part3_tail(j, h)

\* ---- part_002 processClipJob (300-330), after createClip settled
processClipJob_part2(j, r, exists, h) ==
  /\ Returned(j, IF r.ok
                 THEN IF exists THEN Success(OutputPath(j))
                      ELSE Failure(MissingMsg)
                 ELSE Failure(r.msg), h)
  /\ UNCHANGED <<tempFiles, outTimer>>

\* createClip's promise settled with r = [ok, msg]; processClipJob goes on
\* to its next await or to its end.
Settled(j, r, exists, h) ==
  CASE rev = "route" -> processClipJob_route(j, r, exists, h)
    [] rev = "part3" -> processClipJob_part3(j, r, exists, h)
    [] rev = "part2" -> processClipJob_part2(j, r, exists, h)

\* ---- createClip's event handlers
\* 'end': the subprocess exited cleanly, leaving `out` at the output path;
\* clearTimeout, resolve.
createClip_onEnd(j, out) ==
  /\ exec.job = j /\ exec.pc = "render"
  /\ proc[j] = "running"
  /\ proc' = [proc EXCEPT ![j] = "exited"]
  /\ outFiles' = [outFiles EXCEPT ![j] = out]
  /\ Settled(j, [ok |-> TRUE, msg |-> ""], out # "absent",
             [hist[j] EXCEPT !.settle = "end", !.out = out])
  /\ resp' = NoResp
  /\ fsError' = ""
  /\ UNCHANGED <<planVars, sideVars, rev, envWebhook, posts, streams>>

\* 'error': the subprocess failed with message m; clearTimeout, reject(err).
createClip_onError(j, m) ==
  /\ exec.job = j /\ exec.pc = "render"
  /\ proc[j] = "running"
  /\ proc' = [proc EXCEPT ![j] = "exited"]
  /\ Settled(j, [ok |-> FALSE, msg |-> m], FALSE,
             [hist[j] EXCEPT !.settle = "error", !.msg = m])
  /\ resp' = NoResp
  /\ fsError' = ""
  /\ UNCHANGED <<planVars, sideVars, rev, envWebhook, posts, outFiles, streams>>

\* Variant: the timeout rejects without killing the subprocess.
KillCommand_omitted(p) == p

\* command.kill('SIGTERM')
KillCommand(p) == "killed"

\* The 15-minute timer fires while the render is pending: kill, reject.
createClip_onTimeout(j) ==
  /\ exec.job = j /\ exec.pc = "render" /\ exec.timeout
  /\ proc[j] = "running"
  /\ proc' = [proc EXCEPT ![j] = KillCommand(proc[j])]
  /\ Settled(j, [ok |-> FALSE, msg |-> TimeoutMsg], FALSE,
             [hist[j] EXCEPT !.settle = "timeout", !.msg = TimeoutMsg,
                             !.killed = (KillCommand(proc[j]) = "killed")])
  /\ resp' = NoResp
  /\ fsError' = ""
  /\ UNCHANGED <<planVars, sideVars, rev, envWebhook, posts, outFiles, streams>>

\* Variant: the promise can be settled again, a late 'end' turns the
\* timed-out render into a success.
createClip_lateEvent_resettles(j) ==
  /\ proc[j] = "killed"
  /\ proc' = [proc EXCEPT ![j] = "exited"]
  /\ jobs' = [jobs EXCEPT ![j].returnvalue = Success(OutputPath(j))]
  /\ hist' = [hist EXCEPT ![j].settle = "end"]
  /\ resp' = NoResp
  /\ fsError' = ""
  /\ UNCHANGED <<planVars, sideVars, rev, envWebhook,
                 posts, tempFiles, outFiles,
                 exec, outTimer, streams>>

\* The killed subprocess exits and its closing 'error' (or 'end') event
\* reaches the handlers of a promise that is already settled: clearTimeout
\* of a fired timer, reject of a settled promise.
createClip_lateEvent(j) ==
  /\ proc[j] = "killed"
  /\ proc' = [proc EXCEPT ![j] = "exited"]
  /\ resp' = NoResp
  /\ fsError' = ""
  /\ UNCHANGED <<planVars, sideVars, rev, envWebhook,
                 posts, jobs, tempFiles, outFiles,
                 exec, outTimer, streams, hist>>

\* The webhook answered (2xx, another status) or the fetch failed.
HookOutcomes == {"ok", "non2xx", "neterr"}

WebhookDone(j, outcome) ==
  /\ exec.job = j /\ exec.pc = "hook"
  /\ LET h == [hist[j] EXCEPT !.hookOutcome = outcome]
     IN  CASE rev = "route" -> processClipJob_route_fetched(j, outcome, h)
           [] rev = "part3" -> processClipJob_part3_fetched(j, outcome, h)
           [] rev = "part2" -> FALSE
  /\ resp' = NoResp
  /\ fsError' = ""
  /\ UNCHANGED <<planVars, sideVars, rev, envWebhook,
                 posts, outFiles, proc, streams>>

\* The scheduled output cleanup (5 or 15 minutes after completion):
\* fs.remove(outputPath).
OutputCleanup(j) ==
  /\ j \in outTimer
  /\ outTimer' = outTimer \ {j}
  /\ outFiles' = [outFiles EXCEPT ![j] = "absent"]
  /\ resp' = NoResp
  /\ fsError' = ""
  /\ UNCHANGED <<planVars, sideVars, rev, envWebhook,
                 posts, jobs, tempFiles, exec, proc,
                 streams, hist>>

OutContents == {"absent", "empty", "full"}

Worker ==
  \E j \in JobIds :
    \/ processClipJob_start(j)
    \/ \E out \in OutContents : createClip_onEnd(j, out)
    \/ \E m \in EngineMsgs : createClip_onError(j, m)
    \/ createClip_onTimeout(j)
    \/ createClip_lateEvent(j)
    \/ \E outcome \in HookOutcomes : WebhookDone(j, outcome)
    \/ OutputCleanup(j)

\* ------------------------------------------------------------ GET poll
\* The text a job's record keeps of its failure.
JobError(job) ==
  IF job.state = "failed" THEN job.failedReason ELSE job.returnvalue.error

\* Variant: the 'failed' answer passes the job's own error text on.
FailedError_leaky(job) == JobError(job)

\* The `error` of the answer {status: 'failed', error}: a fixed text.
FailedError(job) == "Clip creation failed"

GetResp(status, body, id) ==
  [op |-> "GET", status |-> status, body |-> body, jobId |-> id,
   nfiles |-> 0, qBefore |-> Len(jobs),
   state |-> IF id \in 1..Len(jobs) THEN jobs[id].state ELSE "none",
   stale |-> id \in JobIds /\ hist[id].retrieved,
   error |-> IF id \in 1..Len(jobs) /\ body = "failed"
             THEN FailedError(jobs[id]) ELSE ""]

\* `result && result.success && result.clipPath`
Retrievable(result) == result.set /\ result.success /\ result.clip # <<>>

\* Variant: every state but failed is shown as the artifact or as failed.
StatusOf_noProcessing(job) ==
  IF job.state = "failed" THEN "failed"
  ELSE IF Retrievable(job.returnvalue) THEN "artifact" ELSE "failed"

\* part_002 GET (132-160): the answer for a job the queue knows, by its
\* state.  "artifact" is the 200 response whose body is the read stream of
\* result.clipPath, Content-Type video/mp4: the handler does not look
\* whether the file is there.
StatusOf(job) ==
  IF job.state = "completed"
  THEN IF Retrievable(job.returnvalue) THEN "artifact" ELSE "failed"
  ELSE IF job.state = "failed" THEN "failed" ELSE "processing"

\* Variant: a job the queue does not know is reported as still processing.
GetResponse_unknownProcessing(id) ==
  IF id = 0 THEN GetResp(400, "Job ID is required", id)
  ELSE IF id > Len(jobs) THEN GetResp(200, "processing", id)
  ELSE GetResp(200, StatusOf(jobs[id]), id)

\* part_002 GET (118-165): the answer for ?jobId=<id>; id 0 stands for a
\* request without the parameter, an id past the queue's last for a job
\* the queue does not know (clipQueue.getJob gives none).
GetResponse(id) ==
  IF id = 0 THEN GetResp(400, "Job ID is required", id)
  ELSE IF id > Len(jobs) THEN GetResp(404, "Job not found", id)
  ELSE GetResp(200, StatusOf(jobs[id]), id)

PollIds == 0..(MaxPosts + 1)

GET(id) ==
  /\ rev = "part2"
  /\ resp' = GetResponse(id)
  /\ streams' = IF GetResponse(id).body = "artifact"
                THEN streams \cup {id} ELSE streams
  /\ fsError' = ""
  /\ UNCHANGED <<planVars, sideVars, rev, envWebhook,
                 posts, jobs, tempFiles, outFiles, exec,
                 proc, outTimer, hist>>

\* Variant: an unlink error is not only logged, it fails the job.
StreamClose_escalates(j) ==
  /\ j \in streams
  /\ streams' = streams \ {j}
  /\ outFiles' = [outFiles EXCEPT ![j] = fsUnlink(outFiles[j]).content]
  /\ hist' = [hist EXCEPT ![j].retrieved = TRUE]
  /\ resp' = NoResp
  /\ fsError' = fsUnlink(outFiles[j]).err
  /\ jobs' = IF fsUnlink(outFiles[j]).err = "" THEN jobs
             ELSE [jobs EXCEPT ![j].state = "failed"]
  /\ UNCHANGED <<planVars, sideVars, rev, envWebhook,
                 posts, tempFiles, exec, proc, outTimer>>

\* fileStream.on('close'): fs.unlink(result.clipPath); the callback logs
\* an error and does nothing else.
StreamClose(j) ==
  /\ j \in streams
  /\ streams' = streams \ {j}
  /\ outFiles' = [outFiles EXCEPT ![j] = fsUnlink(outFiles[j]).content]
  /\ hist' = [hist EXCEPT ![j].retrieved = TRUE]
  /\ resp' = NoResp
  /\ fsError' = fsUnlink(outFiles[j]).err
  /\ UNCHANGED <<planVars, sideVars, rev, envWebhook,
                 posts, jobs, tempFiles, exec, proc,
                 outTimer>>

Poll ==
  \/ \E id \in PollIds : GET(id)
  \/ \E j \in JobIds : StreamClose(j)

Next ==
  \/ POST
  \/ Worker
  \/ Poll

Spec == Init /\ [][Next]_vars

\* ------------------------------------------------------------ properties
Known == 1..Len(jobs)

Terminal(j) == jobs[j].state \in {"completed", "failed"}

\* The job ended with a success result.
Succeeded(j) ==
  jobs[j].state = "completed" /\ jobs[j].returnvalue.set
  /\ jobs[j].returnvalue.success

\* The error text the queue keeps for a job that did not succeed.
RetainedError(j) ==
  IF jobs[j].state = "failed" THEN jobs[j].failedReason
  ELSE jobs[j].returnvalue.error

\* C1: once a GET has streamed a completed job's artifact and the stream
\* has closed (the file is deleted), no later GET for that job answers with
\* the video/mp4 artifact response: it answers 'not found' or 'failed'.
C1_NoStaleArtifact ==
  (resp.op = "GET" /\ resp.body = "artifact") => ~resp.stale

C3_NeverThrows == \A j \in Known : ~hist[j].threw

C5_SuccessNeedsNonEmptyOutput ==
  rev = "part3" =>
    \A j \in Known :
      Succeeded(j) => hist[j].settle = "end" /\ hist[j].out = "full"

\* C6 as stated: after an encoder error the queue records the job as
\* failed (not completed) and keeps the engine's message.
C6_QueueStateFailed ==
  \A j \in Known :
    (hist[j].settle = "error" /\ Terminal(j)) =>
      jobs[j].state = "failed" /\ jobs[j].failedReason = hist[j].msg

\* C6 as amended: after an encoder error the job has ended with a failure
\* outcome, never a success, and the queue keeps the engine's message
\* unchanged: as returnvalue.error of a completed job where processClipJob
\* catches (part_003, part_002), which GET reports as 'failed', and as
\* failedReason of a failed job where it rethrows (route.ts).
C6_EncoderErrorRetained ==
  \A j \in Known :
    hist[j].settle = "error" =>
      /\ Terminal(j) /\ ~Succeeded(j)
      /\ RetainedError(j) = hist[j].msg
      /\ rev = "part2" => StatusOf(jobs[j]) = "failed"
      /\ jobs[j].state = (IF rev = "route" THEN "failed" ELSE "completed")

C6_Witness ==
  \E j \in Known :
    /\ hist[j].settle = "error"
    /\ jobs[j].state = "completed"
    /\ jobs[j].returnvalue.error = "Invalid data found"

\* C7: a GET with a jobId the queue does not know is answered
\* 404 {error: 'Job not found'}, never 200 {status: 'processing'}.
C7_UnknownJobNotFound ==
  /\ (resp.op = "GET" /\ resp.jobId > resp.qBefore) =>
       resp.status = 404 /\ resp.body = "Job not found"
  /\ \A id \in PollIds :
       id > Len(jobs) =>
         GetResponse(id).status = 404 /\ GetResponse(id).body # "processing"

C7_Witness ==
  /\ resp.op = "GET" /\ resp.jobId > resp.qBefore /\ resp.status = 404
  /\ Len(jobs) > 0

\* C8: a GET for a known job that is waiting or active is answered
\* 200 {status: 'processing'}: no artifact, no 'failed'.
C8_PendingIsProcessing ==
  (resp.op = "GET" /\ resp.state \in {"waiting", "active"}) =>
    resp.status = 200 /\ resp.body = "processing"

C8_Witness ==
  /\ resp.op = "GET" /\ resp.state = "active" /\ resp.body = "processing"
  /\ exec.pc = "render"

\* C9: a POST without file parts is answered 500 {error} and adds no job:
\* the queue is as it was before the request.
C9_NoFilesRejected ==
  (resp.op = "POST" /\ resp.nfiles = 0) =>
    /\ resp.status = 500
    /\ resp.jobId = 0
    /\ Len(jobs) = resp.qBefore

C9_Witness ==
  /\ rev = "part3"
  /\ resp.op = "POST" /\ resp.nfiles = 0 /\ resp.status = 500
  /\ Len(jobs) = resp.qBefore

\* C10: a failed webhook delivery (non-2xx answer or network error) leaves
\* the job's outcome alone: the job ends successful with its result
\* recorded, and the temp-file cleanup has run.
C10_HookFailureHarmless ==
  \A j \in Known :
    (hist[j].hookOutcome \in {"non2xx", "neterr"}) =>
      /\ Succeeded(j)
      /\ hist[j].cleanups = 1
      /\ Range(jobs[j].mediaItems) \cap tempFiles = {}

\* C11: when process.env.WEBHOOK_URL is not set, no webhook POST is sent for
\* any job.
C11_NoHookWithoutUrl ==
  envWebhook = "" => \A j \in Known : hist[j].hooks = 0

\* ------------------------------------------------------------- liveness
\* What the runtime guarantees to happen: the worker picks up a waiting job,
\* armed timers fire (the render timeout, the output cleanup), an awaited
\* fetch settles, a killed subprocess exits, an open read stream closes.
\* Nothing obliges a client to send a request, nor the encoder to finish.
Fairness ==
  \A j \in JobIds :
    /\ WF_vars(processClipJob_start(j))
    /\ WF_vars(createClip_onTimeout(j))
    /\ WF_vars(createClip_lateEvent(j))
    /\ WF_vars(\E outcome \in HookOutcomes : WebhookDone(j, outcome))
    /\ WF_vars(OutputCleanup(j))
    /\ WF_vars(StreamClose(j))

LiveSpec == Init /\ [][Next]_vars /\ Fairness

\* C12: every rendered output artifact is eventually deleted, by the close
\* of a client's stream or by the grace timer, also when no client polls.
C12_ArtifactEventuallyDeleted ==
  \A j \in JobIds :
    [](outFiles[j] # "absent" => <>(outFiles[j] = "absent"))

\* A step that deletes job j's output artifact: the close of a stream of
\* it, or its grace timer.
DeletesOutput(j) == StreamClose(j) \/ OutputCleanup(j)

Forward == {<<"waiting", "active">>, <<"active", "completed">>,
            <<"active", "failed">>}

\* C14: a job's state only moves forward, waiting -> active -> completed or
\* failed: no job returns to waiting, no terminal job changes state, no job
\* leaves the queue's record, and no job is executed a second time.
C14_StateForward ==
  /\ [][/\ Len(jobs') >= Len(jobs)
        /\ \A j \in Known :
             jobs'[j].state # jobs[j].state =>
               <<jobs[j].state, jobs'[j].state>> \in Forward]_vars
  /\ [](\A j \in Known :
          /\ hist[j].runs <= 1
          /\ jobs[j].state = "waiting" => hist[j].runs = 0)

\* A job has failed by a thrown error, ran once, and the worker is idle
\* with nothing waiting: the failed job is not picked up again.
C14_Witness ==
  /\ \E j \in Known :
       jobs[j].state = "failed" /\ hist[j].threw /\ hist[j].runs = 1
  /\ exec = Idle
  /\ NextWaiting = 0

\* Every error text a job's record can keep.
ErrorTexts == EngineMsgs \cup {TimeoutMsg, MissingMsg, HookMsg, FetchMsg}

\* The same job record with another internal error text.
WithError(job, m) ==
  [job EXCEPT !.failedReason = IF job.state = "failed" THEN m ELSE @,
              !.returnvalue.error =
                 IF job.state = "completed" /\ ~job.returnvalue.success
                 THEN m ELSE @]

\* C15: the answer to a poll for a failed job is the fixed body
\* {status: 'failed', error: 'Clip creation failed'}: it does not carry the
\* job's error text, and a job record that differs only in that text gets
\* the same answer.
C15_FailedAnswerFixed ==
  /\ (resp.op = "GET" /\ resp.body = "failed") =>
       /\ resp.status = 200
       /\ resp.error = "Clip creation failed"
       /\ resp.error # JobError(jobs[resp.jobId])
  /\ \A j \in Known : \A m \in ErrorTexts :
       StatusOf(jobs[j]) = "failed" =>
         /\ StatusOf(WithError(jobs[j], m)) = "failed"
         /\ FailedError(WithError(jobs[j], m)) = FailedError(jobs[j])

\* A poll has answered 'failed' for a job that the encoder's error ended.
C15_Witness ==
  /\ resp.op = "GET" /\ resp.body = "failed"
  /\ resp.error = "Clip creation failed"
  /\ hist[resp.jobId].settle = "error"
  /\ JobError(jobs[resp.jobId]) = "Invalid data found"

\* ------------------------------------------------------ the render plan
\* JavaScript numbers as createClip meets them, in milliseconds: a finite
\* number, NaN, Infinity, and the null that JSON makes of NaN and Infinity
\* when the job's data goes through the queue.
JsNum(ms) == [k |-> "num", ms |-> ms]

JsNaN == [k |-> "nan", ms |-> 0]

JsInf == [k |-> "inf", ms |-> 0]

JsNull == [k |-> "null", ms |-> 0]

\* The duration<i> field a client may send with a file part.
DurationFields == {"absent", "abc", "Infinity", "-2", "0", "0.6", "3"}

\* parseFloat of a form field (a string, or undefined when absent).
ParseFloatField(s) ==
  CASE s = "-2" -> JsNum(-2000)
    [] s = "0" -> JsNum(0)
    [] s = "0.6" -> JsNum(600)
    [] s = "3" -> JsNum(3000)
    [] s = "Infinity" -> JsInf
    [] OTHER -> JsNaN

\* JSON.stringify / JSON.parse of a number: NaN and Infinity become null.
ThroughJSON(v) == IF v.k = "num" THEN v ELSE JsNull

\* parseFloat of a value taken from job.data (a number or null).
parseFloat(v) == IF v.k \in {"num", "inf"} THEN v ELSE JsNaN

\* JavaScript truthiness of a number: 0 and NaN are falsy.
Truthy(v) == v.k = "inf" \/ (v.k = "num" /\ v.ms # 0)

isFinite(v) == v.k = "num"

isNaN(v) == v.k = "nan"

\* `v <= 0`: false for NaN.
NotPositive(v) == v.k = "num" /\ v.ms <= 0

JsAdd(a, b) ==
  IF a.k = "num" /\ b.k = "num" THEN JsNum(a.ms + b.ms)
  ELSE IF a.k = "nan" \/ b.k = "nan" THEN JsNaN ELSE JsInf

JsSub(a, b) ==
  IF a.k = "num" /\ b.k = "num" THEN JsNum(a.ms - b.ms)
  ELSE IF a.k = "inf" /\ b.k = "num" THEN JsInf ELSE JsNaN

\* `v / 2`; the durations of DurationFields are even numbers of ms.
JsHalf(v) == IF v.k = "num" THEN JsNum(v.ms \div 2) ELSE v

\* Math.min: NaN if an argument is NaN.
MathMin(a, b) ==
  IF a.k = "nan" \/ b.k = "nan" THEN JsNaN
  ELSE IF a.k = "inf" THEN b
  ELSE IF b.k = "inf" THEN a
  ELSE IF a.ms <= b.ms THEN a ELSE b

fadeDuration == JsNum(500)

ImageDefault == JsNum(4000)

VideoDefault == JsNum(10000)

ItemTypes == {"image", "video"}

Captions == {"", "hi"}

\* The media item POST puts into the job's data for a file part sent with
\* the fields type<i>, duration<i>, text<i>, as the worker reads it back.
MediaItemOf(type, field, text) ==
  [type |-> type, duration |-> ThroughJSON(ParseFloatField(field)),
   text |-> text]

\* Which caption font files exist: the project's asset, only a system font
\* (the paths part_002 falls back to), or none.
FontSetups == {"assets", "system", "none"}

PlanRevisions == {"part3", "part2", "cfg"}

\* The fontPath createClip ends up with ("" for none): part_003 and
\* next.config.mjs keep the asset's path whether or not the file exists;
\* part_002 falls back to the system paths, then to ''.
FontPath(r, f) ==
  IF r = "part2"
  THEN (IF f = "assets" THEN "assets" ELSE IF f = "system" THEN "system"
        ELSE "")
  ELSE "assets"

\* The file at the font path exists.
FontFound(r, f) == FontPath(r, f) # "" /\ FontPath(r, f) = f

\* Whether a drawtext fragment is pushed for the item: `if (item.text)`, in
\* part_002 `if (item.text && fontPath)`.
Captioned(r, item, f) ==
  IF r = "part2" THEN item.text # "" /\ FontPath(r, f) # ""
  ELSE item.text # ""

NoTrim == JsNull

\* The filter chain of one image item in part_003 and part_002.
ImageFilter(item, f, r) ==
  LET duration == IF Truthy(parseFloat(item.duration))
                  THEN parseFloat(item.duration) ELSE ImageDefault
      effectiveFadeDuration == MathMin(fadeDuration, JsHalf(duration))
  IN  [type |-> "image", duration |-> duration, added |-> duration,
       trim |-> duration, fadeIn |-> effectiveFadeDuration,
       fadeOutStart |-> JsSub(duration, effectiveFadeDuration),
       fadeOut |-> effectiveFadeDuration, caption |-> Captioned(r, item, f)]

\* part_003: `isFinite(parseFloat(d)) ? parseFloat(d) : 10`.
VideoDuration_part3(p) == IF isFinite(p) THEN p ELSE VideoDefault

\* Variant: the default goes to totalDuration only, the fade-out is written
\* from the parsed value.
VideoFilter_part3_rawFade(item, f) ==
  LET parsed == parseFloat(item.duration)
      duration == VideoDuration_part3(parsed)
  IN  [type |-> "video", duration |-> duration, added |-> duration,
       trim |-> NoTrim, fadeIn |-> fadeDuration,
       fadeOutStart |-> JsSub(parsed, fadeDuration),
       fadeOut |-> fadeDuration, caption |-> Captioned("part3", item, f)]

\* The filter chain of one video item in part_003.
VideoFilter_part3(item, f) ==
  LET duration == VideoDuration_part3(parseFloat(item.duration))
  IN  [type |-> "video", duration |-> duration, added |-> duration,
       trim |-> NoTrim, fadeIn |-> fadeDuration,
       fadeOutStart |-> JsSub(duration, fadeDuration),
       fadeOut |-> fadeDuration, caption |-> Captioned("part3", item, f)]

\* part_002: an invalid duration adds 10 to totalDuration; the fade-out is
\* written from the parsed value itself.
VideoFilter_part2(item, f) ==
  LET duration == parseFloat(item.duration)
      invalid == isNaN(duration) \/ NotPositive(duration)
  IN  [type |-> "video", duration |-> duration,
       added |-> IF invalid THEN VideoDefault ELSE duration,
       trim |-> NoTrim, fadeIn |-> fadeDuration,
       fadeOutStart |-> JsSub(duration, fadeDuration),
       fadeOut |-> fadeDuration, caption |-> Captioned("part2", item, f)]

\* next.config.mjs: one chain for both types, from parseFloat(duration).
ItemFilter_cfg(item, f) ==
  LET duration == parseFloat(item.duration)
  IN  [type |-> item.type, duration |-> duration, added |-> duration,
       trim |-> duration, fadeIn |-> fadeDuration,
       fadeOutStart |-> JsSub(duration, fadeDuration),
       fadeOut |-> fadeDuration, caption |-> Captioned("cfg", item, f)]

ItemFilter(r, item, f) ==
  CASE r = "cfg" -> ItemFilter_cfg(item, f)
    [] item.type = "image" -> ImageFilter(item, f, r)
    [] r = "part3" -> VideoFilter_part3(item, f)
    [] OTHER -> VideoFilter_part2(item, f)

\* Variant: the loop adds the durations of image items only.
Accumulate_imagesOnly(total, fl) ==
  IF fl.type = "image" THEN JsAdd(total, fl.added) ELSE total

\* `totalDuration += ...`
Accumulate(total, fl) == JsAdd(total, fl.added)

\* The stream labels of item i (counted from 0 as in the code): [v<i>] ends
\* the item's chain, [v<i>text] is the output of its drawtext filter.
ChainLabel(i) == <<"v", i>>

TextLabel(i) == <<"vtext", i>>

\* part_003 and part_002 push the caption as a filter of its own, reading
\* [v<i>] and writing [v<i>text]; next.config.mjs writes drawtext into the
\* item's chain.
SeparateCaption(r, item, f) == r # "cfg" /\ Captioned(r, item, f)

\* Variant: the caption's label is pushed after the chain's label instead
\* of taking its place.
RECURSIVE createClip_inputs_appended(_, _, _, _, _)
createClip_inputs_appended(r, items, f, i, inputs) ==
  IF i > Len(items) THEN inputs
  ELSE LET pushed == Append(inputs, ChainLabel(i - 1))
       IN  createClip_inputs_appended(r, items, f, i + 1,
             IF SeparateCaption(r, items[i], f)
             THEN Append(pushed, TextLabel(i - 1))
             ELSE pushed)

\* The `inputs` array the loop builds: `inputs.push('[v<i>]')`, and with a
\* caption `inputs[inputs.length - 1] = '[v<i>text]'`.
RECURSIVE createClip_inputs(_, _, _, _, _)
createClip_inputs(r, items, f, i, inputs) ==
  IF i > Len(items) THEN inputs
  ELSE LET pushed == Append(inputs, ChainLabel(i - 1))
       IN  createClip_inputs(r, items, f, i + 1,
             IF SeparateCaption(r, items[i], f)
             THEN [pushed EXCEPT ![Len(pushed)] = TextLabel(i - 1)]
             ELSE pushed)

\* The loop of createClip over mediaItems from index i, with the filters and
\* the totalDuration built so far; then the concat filter
\* `<inputs>concat=n=<length>:v=1:a=0[outv]`, `-map [outv]`, and the plan.
RECURSIVE createClip_loop(_, _, _, _, _, _)
createClip_loop(r, items, f, i, filters, totalDuration) ==
  IF i > Len(items)
  THEN [built |-> TRUE, filters |-> filters, total |-> totalDuration,
        concatN |-> Len(items),
        inputs |-> createClip_inputs(r, items, f, 1, <<>>),
        concatV |-> 1, concatA |-> 0, mapped |-> <<"outv">>]
  ELSE LET fl == ItemFilter(r, items[i], f)
       IN  createClip_loop(r, items, f, i + 1, Append(filters, fl),
                           Accumulate(totalDuration, fl))

\* Variant: totalDuration is a module-level variable that the next call
\* goes on adding to.
createClip_plan_keepsTotal(r, items, f) ==
  createClip_loop(r, items, f, 1, <<>>, plan.total)

\* `let totalDuration = 0; const filters = []; const inputs = [];` are
\* locals of createClip: every call starts from them.
createClip_plan(r, items, f) ==
  createClip_loop(r, items, f, 1, <<>>, JsNum(0))

\* ---- the plan builder as a state machine of its own
\* A client's form adds one more file part with its fields.
Submit(type, field, text) ==
  /\ ~plan.built
  /\ Len(media) < MaxItems
  /\ media' = Append(media, MediaItemOf(type, field, text))
  /\ UNCHANGED <<sideVars, rev, envWebhook, posts, jobs, tempFiles, outFiles,
                 exec,
                 proc, outTimer, streams, resp, fsError, hist, fonts, plan,
                 replan>>

\* The worker calls createClip with the job's items.
createClip_build ==
  /\ ~plan.built
  /\ media # <<>>
  /\ plan' = createClip_plan(rev, media, fonts)
  /\ UNCHANGED <<sideVars, rev, envWebhook, posts, jobs, tempFiles, outFiles,
                 exec,
                 proc, outTimer, streams, resp, fsError, hist, media, fonts,
                 replan>>

\* The worker calls createClip once more with the same job data (a later
\* execution of the job).
createClip_rebuild ==
  /\ plan.built
  /\ ~replan.built
  /\ replan' = createClip_plan(rev, media, fonts)
  /\ UNCHANGED <<sideVars, rev, envWebhook, posts, jobs, tempFiles, outFiles,
                 exec,
                 proc, outTimer, streams, resp, fsError, hist, media, fonts,
                 plan>>

PlanInit ==
  /\ rev \in PlanRevisions
  /\ fonts \in FontSetups
  /\ media = <<>>
  /\ plan = NoPlan
  /\ replan = NoPlan
  /\ progress = NoProgress
  /\ page = NoPage
  /\ poll = NoPoll
  /\ envWebhook = ""
  /\ posts = 0
  /\ jobs = <<>>
  /\ tempFiles = {}
  /\ outFiles = [j \in JobIds |-> "absent"]
  /\ exec = Idle
  /\ proc = [j \in JobIds |-> "none"]
  /\ outTimer = {}
  /\ streams = {}
  /\ resp = NoResp
  /\ fsError = ""
  /\ hist = [j \in JobIds |-> NoHist]

PlanNext ==
  \/ \E type \in ItemTypes, field \in DurationFields, text \in Captions :
       Submit(type, field, text)
  \/ createClip_build
  \/ createClip_rebuild

PlanSpec == PlanInit /\ [][PlanNext]_vars

\* The duration the revision's defaulting resolves for one item, the one it
\* adds to totalDuration.
ResolvedDuration(r, item, f) == ItemFilter(r, item, f).added

\* The sum of the items' resolved durations, from the last item back.
RECURSIVE SumResolved(_, _, _)
SumResolved(r, items, f) ==
  IF items = <<>> THEN JsNum(0)
  ELSE JsAdd(SumResolved(r, SubSeq(items, 1, Len(items) - 1), f),
             ResolvedDuration(r, items[Len(items)], f))

\* C16: the totalDuration createClip computes (the -t bound, the value it
\* resolves with) is the sum over the job's items of their resolved
\* durations, one filter chain per item.
C16_TotalIsSum ==
  plan.built =>
    /\ plan.total = SumResolved(rev, media, fonts)
    /\ Len(plan.filters) = Len(media)

\* A plan of a video without duration and a 0.6 s image: 10.6 s.
C16_Witness ==
  /\ plan.built /\ Len(media) = 2
  /\ media[1].type = "video" /\ media[1].duration = JsNull
  /\ media[2].type = "image" /\ media[2].duration = JsNum(600)
  /\ plan.total = JsNum(10600)

\* The duration<i> fields that give no usable duration: absent, unparsable,
\* non-finite, not positive.
InvalidImageFields == {"absent", "abc"}

InvalidVideoFields == {"absent", "abc", "Infinity", "-2", "0"}

\* What the job's data holds for such a field.
StoredDuration(field) == ThroughJSON(ParseFloatField(field))

\* C17: an image item whose duration is absent or unparsable resolves to
\* 4 s, a video item whose duration is absent, unparsable, non-finite or not
\* positive resolves to 10 s, in every place the plan uses the duration:
\* what is added to totalDuration, the trim, the start of the fade-out.
C17_DefaultDurations ==
  plan.built =>
    \A i \in 1..Len(media) :
      LET fl == plan.filters[i]
          d == IF media[i].type = "image" THEN ImageDefault ELSE VideoDefault
          invalid ==
            \E x \in (IF media[i].type = "image" THEN InvalidImageFields
                      ELSE InvalidVideoFields) :
              media[i].duration = StoredDuration(x)
      IN  invalid =>
            /\ fl.added = d
            /\ fl.duration = d
            /\ fl.trim \in {d, NoTrim}
            /\ fl.fadeOutStart = JsSub(d, fl.fadeOut)

\* C18: a caption overlay (drawtext) fragment is in the plan for an item if
\* and only if the item's text is non-empty and the font file was found.
C18_CaptionIffFont ==
  plan.built =>
    \A i \in 1..Len(media) :
      plan.filters[i].caption <=>
        (media[i].text # "" /\ FontFound(rev, fonts))

\* ------------------------------------------------ intake of many file parts
\* The page shows five media slots.
ItemLimit == 5

\* File parts one request may carry in the intake specification.
MaxParts == 6

\* Original names of the parts, distinct, in the order they are appended.
PartNames == <<"a", "b", "c", "d", "e", "f", "g", "h">>

\* A request's parts as formData.entries() yields them: the first n names.
IntakeUploads == {SubSeq(PartNames, 1, n) : n \in 0..MaxParts}

\* The POST handlers alone, fed with requests of up to MaxParts parts, as a
\* client other than the page may send them.
IntakeNext ==
  \/ \E body \in Bodies, files \in IntakeUploads, addOk \in BOOLEAN :
       Request(body, files) /\ POST_route(body, files, addOk)
  \/ \E body \in Bodies, files \in IntakeUploads, addOk \in BOOLEAN :
       Request(body, files) /\ POST_part3(body, files, addOk)
  \/ \E body \in Bodies, files \in IntakeUploads, addOk \in BOOLEAN :
       Request(body, files) /\ POST_part2(body, files, addOk)

IntakeSpec == Init /\ [][IntakeNext]_vars

\* C19: every job on the queue has between 1 and 5 media items, also when
\* the request carried more than 5 file parts.
C19_ItemsWithinLimit ==
  \A j \in Known :
    /\ Len(jobs[j].mediaItems) >= 1
    /\ Len(jobs[j].mediaItems) <= ItemLimit

\* ------------------------------------------------- webhook notification
\* C20: in part_003 a webhook notification is sent only for a job whose
\* render ended and whose output file was found, at most once per execution
\* of the job and never again after a failed delivery; a job whose render
\* failed or timed out, or whose result is a failure, gets none.
C20_HookOnlyVerifiedOnce ==
  rev = "part3" =>
    \A j \in Known :
      /\ hist[j].hooks <= 1
      /\ hist[j].hooks <= hist[j].runs
      /\ hist[j].hooks > 0 =>
           /\ hist[j].settle = "end"
           /\ hist[j].out # "absent"
      /\ hist[j].settle \in {"error", "timeout"} => hist[j].hooks = 0
      /\ (jobs[j].returnvalue.set /\ ~jobs[j].returnvalue.success) =>
           hist[j].hooks = 0

C20_Witness ==
  /\ rev = "part3"
  /\ \E j \in Known :
       /\ Terminal(j) /\ hist[j].hookOutcome = "non2xx"
       /\ hist[j].hooks = 1
  /\ \E j \in Known :
       /\ Terminal(j) /\ hist[j].settle = "end" /\ hist[j].out = "absent"
       /\ hist[j].hooks = 0

\* ------------------------------------------------------ queue add failure
\* A POST with file parts in a multipart body whose clipQueue.add is
\* rejected by the broker.
POST_addRejected ==
  \E files \in Uploads \ {<<>>} :
    \/ POST_route("multipart", files, FALSE)
    \/ POST_part3("multipart", files, FALSE)
    \/ POST_part2("multipart", files, FALSE)

\* C21: when adding the job to the queue fails, POST answers 500 with an
\* error body that carries no jobId, and the queue holds no job for that
\* submission.
C21_AddFailureIs500 ==
  [][POST_addRejected =>
       /\ resp'.op = "POST" /\ resp'.status = 500 /\ resp'.jobId = 0
       /\ jobs' = jobs
       /\ \A j \in 1..Len(jobs') : jobs'[j].sessionId # posts']_vars

C21_Witness ==
  /\ rev \in {"part3", "part2"}
  /\ resp.op = "POST" /\ resp.nfiles > 0
  /\ resp.status = 500 /\ resp.jobId = 0
  /\ \A j \in Known : jobs[j].sessionId # posts

\* ------------------------------------------------------- paths of uploads
\* C22: within one submission any two uploaded files, also two with the
\* same original name, are persisted to distinct paths: no two media items
\* of a job share a path.
C22_DistinctPathsInJob ==
  \A j \in Known :
    \A i, k \in 1..Len(jobs[j].mediaItems) :
      i # k => jobs[j].mediaItems[i] # jobs[j].mediaItems[k]

\* ------------------------------------------------- files of distinct jobs
\* C23: two distinct jobs share no temp input path and no output path, and
\* no step of one job removes an input of another: the inputs of a job that
\* has not finished are all on disk.
C23_JobsOwnDisjointFiles ==
  /\ \A i, j \in Known :
       i # j =>
         /\ Range(jobs[i].mediaItems) \cap Range(jobs[j].mediaItems) = {}
         /\ OutputPath(i) # OutputPath(j)
  /\ \A j \in Known :
       ~Terminal(j) => Range(jobs[j].mediaItems) \subseteq tempFiles

C23_Witness ==
  \E i, j \in Known :
    /\ i # j
    /\ Terminal(i) /\ hist[i].cleanups = 1
    /\ Range(jobs[i].mediaItems) \cap tempFiles = {}
    /\ jobs[j].state = "active" /\ outFiles[i] # "absent"
    /\ Range(jobs[j].mediaItems) \subseteq tempFiles

C25_RenderEventuallySettles ==
  \A j \in JobIds :
    (j \in Known /\ jobs[j].state = "active")
      ~> (j \in Known /\ Terminal(j) /\ hist[j].settle # "none")

\* ---------------------------------------------- durations the plan uses
\* A positive finite number.
PositiveFinite(v) == v.k = "num" /\ v.ms > 0

\* C26: every duration the plan uses for an item (the trim length, what is
\* added to totalDuration, the value the fade-out start is computed from) is
\* a positive finite number, whatever duration field the client sent.
C26_DurationsPositiveFinite ==
  plan.built =>
    \A i \in 1..Len(plan.filters) :
      LET fl == plan.filters[i]
      IN  /\ PositiveFinite(fl.duration)
          /\ PositiveFinite(fl.added)
          /\ fl.trim # NoTrim => PositiveFinite(fl.trim)

\* C27: for every item with a positive finite duration d the fade length is
\* min(0.5, d/2) for the fade-in and the fade-out, so the fade-out starts no
\* earlier than the fade-in ends and never before time 0.
C27_FadeClamped ==
  plan.built =>
    \A i \in 1..Len(plan.filters) :
      LET fl == plan.filters[i]
          f == MathMin(fadeDuration, JsHalf(fl.duration))
      IN  PositiveFinite(fl.duration) =>
            /\ fl.fadeIn = f /\ fl.fadeOut = f
            /\ fl.fadeOutStart.k = "num"
            /\ fl.fadeOutStart.ms >= fl.fadeIn.ms
            /\ fl.fadeOutStart.ms >= 0

\* ------------------------------------------------------ the concatenation
\* C28: the concat filter consumes exactly one stream per media item, the
\* k-th of them being the stream of the k-th item (its caption filter's
\* output if it has one, the end of its chain otherwise); it has one video
\* and no audio output, and only that video output is mapped.
C28_ConcatOnePerItem ==
  plan.built =>
    /\ plan.concatN = Len(media)
    /\ Len(plan.inputs) = plan.concatN
    /\ \A k \in 1..Len(plan.inputs) :
         plan.inputs[k] =
           IF rev # "cfg" /\ plan.filters[k].caption
           THEN TextLabel(k - 1) ELSE ChainLabel(k - 1)
    /\ plan.concatV = 1 /\ plan.concatA = 0
    /\ plan.mapped = <<"outv">>

C28_Witness ==
  /\ plan.built /\ rev = "part3"
  /\ Len(media) = 2
  /\ plan.inputs = <<ChainLabel(0), TextLabel(1)>>
  /\ plan.concatN = 2 /\ plan.concatA = 0

C30_InputsWrittenBeforeVisible ==
  /\ [][Len(jobs') > Len(jobs) =>
          Range(jobs'[Len(jobs')].mediaItems) \subseteq tempFiles']_vars
  /\ [][\A j \in Known :
          (jobs[j].state = "waiting" /\ jobs'[j].state = "active") =>
            Range(jobs[j].mediaItems) \subseteq tempFiles]_vars

C30_Witness ==
  /\ rev = "part2"
  /\ \E j \in Known :
       /\ resp.op = "POST" /\ resp.status = 200 /\ resp.jobId = j
       /\ jobs[j].state = "waiting"
       /\ Len(jobs[j].mediaItems) = 2
       /\ Range(jobs[j].mediaItems) \subseteq tempFiles
  /\ \E k \in Known : jobs[k].state = "active"

\* ------------------------------------------------------ side specifications
\* The route's own variables, which the progress logger and the page leave
\* alone.
routeVars == <<rev, envWebhook, posts, jobs, tempFiles, outFiles, exec, proc,
               outTimer, streams, resp, fsError, hist>>

\* The route and the plan builder at rest, the logger and the page fresh.
SideInit ==
  /\ rev = "part3"
  /\ envWebhook = ""
  /\ posts = 0
  /\ jobs = <<>>
  /\ tempFiles = {}
  /\ outFiles = [j \in JobIds |-> "absent"]
  /\ exec = Idle
  /\ proc = [j \in JobIds |-> "none"]
  /\ outTimer = {}
  /\ streams = {}
  /\ resp = NoResp
  /\ fsError = ""
  /\ hist = [j \in JobIds |-> NoHist]
  /\ media = <<>>
  /\ fonts = "assets"
  /\ plan = NoPlan
  /\ replan = NoPlan
  /\ progress = NoProgress
  /\ page = NoPage
  /\ poll = NoPoll

\* ---------------------------------------------------- progress logging
\* Date.now() readings go up to MaxClock ms.
MaxClock == 5000

\* Time passing between two events of the render, in ms.
ClockSteps == {500, 1000, 1500}

\* `if (now - lastProgress > 1000)`
ThrottleMs == 1000

\* Variant: a message is logged when exactly one second has passed.
ProgressDue_inclusive(now, lastProgress) == now - lastProgress >= ThrottleMs

ProgressDue(now, lastProgress) == now - lastProgress > ThrottleMs

\* Time passes.
ClockAdvance(d) ==
  /\ progress.now + d <= MaxClock
  /\ progress' = [progress EXCEPT !.now = @ + d]
  /\ UNCHANGED <<routeVars, planVars, page, poll>>

\* createClip builds the promise: `let lastProgress = Date.now()`, then
\* command...run().
createClip_run ==
  /\ ~progress.running
  /\ progress' = [progress EXCEPT !.running = TRUE,
                                  !.startedAt = progress.now,
                                  !.lastProgress = progress.now]
  /\ UNCHANGED <<routeVars, planVars, page, poll>>

\* The 'progress' handler: log and remember the time if more than a second
\* has passed since the last logged message.
createClip_onProgress ==
  /\ progress.running
  /\ progress' =
       IF ProgressDue(progress.now, progress.lastProgress)
       THEN [progress EXCEPT !.logged = Append(@, progress.now),
                             !.lastProgress = progress.now]
       ELSE progress
  /\ UNCHANGED <<routeVars, planVars, page, poll>>

ProgressNext ==
  \/ \E d \in ClockSteps : ClockAdvance(d)
  \/ createClip_run
  \/ createClip_onProgress

ProgressSpec == SideInit /\ [][ProgressNext]_vars

\* C31: any two logged progress messages of one render are more than
\* 1000 ms apart, and the first is logged more than 1000 ms after the render
\* started.
C31_ProgressThrottled ==
  \A i \in 1..Len(progress.logged) :
    progress.logged[i] -
      (IF i = 1 THEN progress.startedAt ELSE progress.logged[i - 1]) > 1000

C31_Witness ==
  /\ Len(progress.logged) >= 2
  /\ progress.logged[1] - progress.startedAt = 1500
  /\ progress.now - progress.lastProgress = 1000

\* ------------------------------------------------ settling a render once
\* C32: a render's outcome is settled once.  What settled it ('end',
\* 'error' or the timeout) never changes afterwards, and neither does the
\* result of a finished job; a render the timeout settled keeps the timeout
\* error, also after the killed subprocess's closing event; a render that
\* 'end' or 'error' settled is never killed by the timer.
C32_SettledOnce ==
  /\ [][\A j \in Known :
          /\ hist[j].settle # "none" => hist'[j].settle = hist[j].settle
          /\ Terminal(j) =>
               /\ jobs'[j].returnvalue = jobs[j].returnvalue
               /\ jobs'[j].failedReason = jobs[j].failedReason]_vars
  /\ [](\A j \in Known :
          /\ (hist[j].settle = "timeout" /\ Terminal(j)) =>
               ~Succeeded(j) /\ RetainedError(j) = TimeoutMsg
          /\ hist[j].settle \in {"end", "error"} =>
               ~hist[j].killed /\ proc[j] = "exited")

C32_Witness ==
  /\ \E j \in Known :
       /\ hist[j].settle = "timeout" /\ proc[j] = "exited"
       /\ RetainedError(j) = TimeoutMsg
  /\ \E j \in Known :
       /\ hist[j].settle = "end" /\ Terminal(j) /\ ~hist[j].killed

\* ------------------------------------------- one duration for each item
\* C33: in part_003 every item's fade-out starts at the duration added to
\* totalDuration minus the fade length, also when the default was applied,
\* and every number written into the item's filter fragment is finite.
C33_SingleResolvedDuration ==
  (plan.built /\ rev = "part3") =>
    \A i \in 1..Len(plan.filters) :
      LET fl == plan.filters[i]
      IN  /\ fl.fadeOutStart = JsSub(fl.added, fl.fadeOut)
          /\ fl.duration = fl.added
          /\ isFinite(fl.added) /\ isFinite(fl.fadeOutStart)
          /\ isFinite(fl.fadeIn) /\ isFinite(fl.fadeOut)
          /\ fl.trim # NoTrim => fl.trim = fl.added

C33_Witness ==
  /\ plan.built /\ rev = "part3"
  /\ \E i \in 1..Len(media) :
       /\ media[i].type = "video" /\ media[i].duration = JsNull
       /\ plan.filters[i].added = VideoDefault
       /\ plan.filters[i].fadeOutStart = JsNum(9500)

\* ------------------------------------------- the notification's duration
\* part_003's processClipJob:
\* `mediaItems.reduce((total, item) => total + parseFloat(item.duration), 0)`
RECURSIVE ReduceDurations(_, _)
ReduceDurations(items, total) ==
  IF items = <<>> THEN total
  ELSE ReduceDurations(Tail(items),
                       JsAdd(total, parseFloat(Head(items).duration)))

\* The `duration` field of the webhook's JSON body: part_003 sends its own
\* sum of the items' duration fields, next.config.mjs the value createClip
\* resolved with.
WebhookDuration(r, items, resolved) ==
  IF r = "part3" THEN ThroughJSON(ReduceDurations(items, JsNum(0)))
  ELSE ThroughJSON(resolved)

\* C34: the duration field of the webhook notification is the totalDuration
\* createClip computed for the job, also when item durations were defaulted.
C34_HookDurationIsTotal ==
  (plan.built /\ rev \in {"part3", "cfg"}) =>
    WebhookDuration(rev, media, plan.total) = ThroughJSON(plan.total)

\* --------------------------------------------------- the page's captions
\* Files the user picks in one behaviour of the page.
MaxPicks == 2

\* What the user types into a caption box.
PageTexts == {"", "x", "y"}

\* `array.filter((_, i) => i !== index)`, index counted from 0.
FilterOut(s, index) ==
  [k \in 1..(Len(s) - 1) |-> IF k <= index THEN s[k] ELSE s[k + 1]]

\* handleFileChange / processFile(file, mediaItems.length): the picked file
\* becomes the item of the first free slot, with the text of that slot's
\* caption box.  Files are numbered in the order they are picked.
handleFileChange ==
  /\ ~page.submitted
  /\ page.picked < MaxPicks
  /\ Len(page.mediaItems) < ItemLimit
  /\ page' = [page EXCEPT
       !.picked = @ + 1,
       !.mediaItems = Append(@, page.picked + 1),
       !.entered = Append(@, page.textAreaValues[Len(page.mediaItems)])]
  /\ UNCHANGED <<routeVars, planVars, progress, poll>>

\* handleTextAreaChange(index, value), for the box of an item on the page.
handleTextAreaChange(index, value) ==
  /\ ~page.submitted
  /\ index < Len(page.mediaItems)
  /\ page' = [page EXCEPT
       !.textAreaValues[index] = value,
       !.entered[page.mediaItems[index + 1]] = value]
  /\ UNCHANGED <<routeVars, planVars, progress, poll>>

\* handleRemoveItem(index): the item is filtered out of mediaItems, the
\* later items move up one slot; textAreaValues is not touched.
handleRemoveItem(index) ==
  /\ ~page.submitted
  /\ index < Len(page.mediaItems)
  /\ page' = [page EXCEPT !.mediaItems = FilterOut(@, index)]
  /\ UNCHANGED <<routeVars, planVars, progress, poll>>

\* handleConfirmDownload: file<n> and text<n> = textAreaValues[i] for the
\* i-th item of mediaItems.
handleConfirmDownload ==
  /\ ~page.submitted
  /\ page.mediaItems # <<>>
  /\ page' = [page EXCEPT
       !.submitted = TRUE,
       !.form = [k \in 1..Len(page.mediaItems) |->
                   [file |-> page.mediaItems[k],
                    text |-> page.textAreaValues[k - 1]]]]
  /\ UNCHANGED <<routeVars, planVars, progress, poll>>

PageNext ==
  \/ handleFileChange
  \/ \E index \in 0..(ItemLimit - 1), value \in PageTexts :
       handleTextAreaChange(index, value)
  \/ \E index \in 0..(ItemLimit - 1) : handleRemoveItem(index)
  \/ handleConfirmDownload

PageSpec == SideInit /\ [][PageNext]_vars

\* C35: the text<i> submitted with file<i> is the caption the user entered
\* for that media item, whatever items were added, captioned and removed
\* before.
C35_CaptionFollowsItem ==
  page.submitted =>
    \A k \in 1..Len(page.form) :
      page.form[k].text = page.entered[page.form[k].file]

\* ----------------------------------------------------- the page's polling
\* Interval ticks (status requests sent) in one behaviour.
MaxTicks == 4

\* What the route's GET answers for the job in its present state.
PollAnswer(job) ==
  CASE job = "processing" -> "processing"
    [] job = "completed" -> "artifact"
    [] job = "failed" -> "failed"
    [] job = "unknown" -> "404"

\* pollForClipUrl(jobId): setInterval(async () => {...}, 5000).
pollForClipUrl ==
  /\ poll.interval = "none"
  /\ poll' = [poll EXCEPT !.interval = "on"]
  /\ UNCHANGED <<routeVars, planVars, progress, page>>

\* Five seconds have passed: the interval's callback starts and sends its
\* fetch, whether or not an earlier callback is still awaiting its own.
IntervalTick ==
  /\ poll.interval = "on"
  /\ poll.ticks < MaxTicks
  /\ poll' = [poll EXCEPT
       !.ticks = @ + 1,
       !.inflight = @ + 1,
       !.sentAfterTerminal = @ \/ poll.terminalSeen]
  /\ UNCHANGED <<routeVars, planVars, progress, page>>

\* The server's side: the job completes, fails, or is no longer known.
JobSettles(s) ==
  /\ poll.job = "processing"
  /\ poll' = [poll EXCEPT !.job = s]
  /\ UNCHANGED <<routeVars, planVars, progress, page>>

\* A callback's fetch settles: with the route's answer, or (~ok) with a
\* request error (a rejected fetch, a status other than 2xx and 404).  Every
\* answer but 'processing' clears the interval; the artifact is downloaded
\* with a.click().
PollResponse(ok) ==
  /\ poll.inflight > 0
  /\ LET answer == IF ok THEN PollAnswer(poll.job) ELSE "error"
     IN  poll' =
           IF answer = "processing"
           THEN [poll EXCEPT !.inflight = @ - 1]
           ELSE [poll EXCEPT
                  !.inflight = @ - 1,
                  !.interval = "cleared",
                  !.terminalSeen = TRUE,
                  !.clicks = IF answer = "artifact" THEN @ + 1 ELSE @]
  /\ UNCHANGED <<routeVars, planVars, progress, page>>

PollNext ==
  \/ pollForClipUrl
  \/ IntervalTick
  \/ \E s \in {"completed", "failed", "unknown"} : JobSettles(s)
  \/ \E ok \in BOOLEAN : PollResponse(ok)

PollSpec == SideInit /\ [][PollNext]_vars

\* C36: the polling stops with the first terminal answer (no request is
\* sent after it) and goes on while the answers are 'processing'; the clip
\* download is triggered at most once per job.
C36_PollOnceDownloadOnce ==
  /\ poll.terminalSeen <=> poll.interval = "cleared"
  /\ ~poll.sentAfterTerminal
  /\ poll.clicks <= 1
====
